---- MODULE Spec2Model ----
(***************************************************************************)
(* Distributed circuit breaker (breaker/core): the registry, the wrapper,   *)
(* the DistributedPods strategy, the per-process CircuitStoreSingleton and  *)
(* the shared Redis buckets, for one breaker name on a fleet of replicas.   *)
(*                                                                         *)
(* Time.  One clock `now`, counted in half seconds, drives both            *)
(* datetime.now() and time.monotonic().  strftime("%Y-%m-%dT%H:%M:%S")      *)
(* drops the sub-second part, strptime gives the whole second back.         *)
(*                                                                         *)
(* Handlers are atomic in Spec (one action per handler).  SpecReg          *)
(* interleaves the steps of the registry lookups of several threads.       *)
(***************************************************************************)
EXTENDS Integers, Sequences, FiniteSets, TLC

Replicas == {"A", "B"}

\* The replicas are interchangeable; "B" stands for the one that starts second.
Peer == "B"

\* What the wrapped function does when it is run: it returns, or raises an
\* Exception.
Outcomes == {"ok", "raise"}

\* It may also raise a BaseException that is no Exception (KeyboardInterrupt,
\* SystemExit, GeneratorExit), which included_errors does not list.
Unclassified == {"interrupt"}

\* A wrapped generator function: calling it returns a generator.
GeneratorFunction == "generator"

\* The threads of one process that use the registry, and that process.
Threads == {"t1", "t2"}
Proc == "A"

----------------------------------------------------------------------------
\* Bounds of the exploration: the horizon in half seconds, the number of
\* guarded calls, and the scales that bring the program's durations (seconds)
\* and request counts down to that horizon.
MaxTick == 7
MaxCalls == 4
\* Of the guarded calls: how many the peer replica makes, how many go through
\* the scoped guard, and how many find the shared store unreachable.
MaxPeerCalls == MaxCalls \div 2
MaxUses == MaxCalls \div 4
MaxOutages == MaxCalls \div 4
TimeScale == 15
CountScale == 10
\* Registry operations (wraps and lookups) per thread.
MaxOps == 3
\* Elements a generator gives before it ends or is closed.
MaxYield == MaxCalls \div 2

\* DistributedPods.DEFAULT_MIN_REQUESTS = 30, DEFAULT_WINDOW = 60 and
\* BreakerService.DEFAULT_RECOVERY_TIMEOUT = 30, scaled.
DEFAULT_MIN_REQUESTS == 30 \div CountScale
DEFAULT_WINDOW == 60 \div TimeScale
DEFAULT_RECOVERY_TIMEOUT == 30 \div TimeScale

\* Program constants kept at their values: the read delay in seconds and the
\* default failure threshold 0.5, written in percent.
DEFAULT_WINDOW_READ_DELAY == 1
DEFAULT_FAILURE_THRESHOLD == 50

----------------------------------------------------------------------------
\* Time conversions.  A tick is half a second.
strftime(t) == t \div 2
strptime(sec) == 2 * sec
timedelta(seconds) == 2 * seconds

\* An idle period longer than the window, and the last second of any run.
IdleTicks == timedelta(DEFAULT_WINDOW + DEFAULT_WINDOW_READ_DELAY)
MaxSec == strftime(MaxTick + IdleTicks)
Secs == 0..MaxSec

Zero == [success |-> 0, failed |-> 0]
ZeroBuckets == [s \in Secs |-> Zero]

\* Store.PAST_WINDOW of a fresh circuit entry: {} (falsy).
EmptyPW == [has |-> FALSE, end |-> 0, window |-> [s \in {} |-> Zero]]

NoView == [valid |-> FALSE, events |-> 0, failures |-> 0]

----------------------------------------------------------------------------
\* The options a call site passes to circuit(name, ...).  0 stands for a
\* value that is None or otherwise falsy (`x or DEFAULT` treats them alike);
\* thresholds are in percent, the recovery timeout in seconds.
WrapOptions ==
    { [failure_threshold |-> 0, failure_threshold_close |-> 0,
       recovery_timeout |-> 0, fallback_function |-> FALSE],
      [failure_threshold |-> 30, failure_threshold_close |-> 0,
       recovery_timeout |-> 45 \div TimeScale, fallback_function |-> TRUE] }

NoOptions == [failure_threshold |-> 0, failure_threshold_close |-> 0,
              recovery_timeout |-> 0, fallback_function |-> FALSE]

NoService == [has |-> FALSE]
NoStrategy == [has |-> FALSE]

\* BreakerService.__init__: `or` replaces falsy options by the defaults.
BreakerService(o, id) ==
    [has |-> TRUE, id |-> id,
     _failure_threshold_open |->
        IF o.failure_threshold = 0 THEN DEFAULT_FAILURE_THRESHOLD ELSE o.failure_threshold,
     _failure_threshold_close |->
        IF o.failure_threshold_close = 0 THEN DEFAULT_FAILURE_THRESHOLD
        ELSE o.failure_threshold_close,
     _recovery_timeout |->
        IF o.recovery_timeout = 0 THEN DEFAULT_RECOVERY_TIMEOUT ELSE o.recovery_timeout,
     _fallback_function |-> o.fallback_function]

\* The per-breaker configuration get_strategy is given: one entry, under the
\* key "breaker_name", supplying window 60, min_requests 10 and read_delay 1.
distributed_config ==
    [breaker_name |-> [window |-> 60 \div TimeScale,
                       min_requests |-> 10 \div CountScale,
                       read_delay |-> DEFAULT_WINDOW_READ_DELAY]]

\* dict.get(key, default)
dict_get(d, key, default) == IF key \in DOMAIN d THEN d[key] ELSE default

\* BreakerBaseStrategyConfig as get_strategy builds it: min_requests and
\* window are looked up in distributed_config itself, whose only key is
\* "breaker_name".
BreakerBaseStrategyConfig(svc) ==
    [recovery_timeout |-> svc._recovery_timeout,
     error_threshold_open |-> svc._failure_threshold_open,
     error_threshold_close |-> svc._failure_threshold_close,
     min_requests |-> dict_get(distributed_config, "min_requests", DEFAULT_MIN_REQUESTS),
     window |-> dict_get(distributed_config, "window", DEFAULT_WINDOW)]

\* BreakerBaseStrategy.__init__ + DistributedPods.__init__ at monotonic time t.
DistributedPods(svc, id, t) ==
    [has |-> TRUE, id |-> id,
     config |-> BreakerBaseStrategyConfig(svc),
     _state |-> "CLOSED",
     _failure_count |-> 0,
     _opened |-> t,
     _fallback_function |-> svc._fallback_function,
     _recovery_timeout |-> svc._recovery_timeout,
     _read_delay |-> dict_get(distributed_config, "read_delay", DEFAULT_WINDOW_READ_DELAY)]

----------------------------------------------------------------------------
(***************************************************************************)
(* A handler runs on a "world": the strategy object s, the process's       *)
(* circuit entry (buf = SUCCESS/FAILED counters, pw = PAST_WINDOW), the     *)
(* shared redis buckets and whether redis answers (up).  exc is the         *)
(* exception in flight, ret/updated/win/view are return values.  rec and    *)
(* fl are history: what this replica recorded and flushed, per second.      *)
(***************************************************************************)
World(s, entry, redisv, upv, recv, flv) ==
    [s |-> s, buf |-> entry.buf, pw |-> entry.pw, redis |-> redisv, up |-> upv,
     rec |-> recv, fl |-> flv, exc |-> "none", ret |-> FALSE, updated |-> FALSE,
     win |-> EmptyPW, view |-> NoView, reads |-> 0]

\* CircuitStoreSingleton.  An absent entry and a fresh one (zero counters,
\* PAST_WINDOW {}) behave alike on every path: get_breaker, record_* and
\* reset_breaker create the entry before it is read.
record_success(w, t) ==
    [w EXCEPT !.buf.success = @ + 1, !.rec[strftime(t)].success = @ + 1]

record_failure(w, t) ==
    [w EXCEPT !.buf.failed = @ + 1, !.rec[strftime(t)].failed = @ + 1]

\* reset_breaker pops the whole entry, PAST_WINDOW included, and recreates it.
reset_breaker(w) == [w EXCEPT !.buf = Zero, !.pw = EmptyPW]

get_past_window(w) == w.pw

\* {**old, **new}: a top-level merge; new carries both keys "end" and "window".
update_past_window(w, past_window) ==
    [w EXCEPT !.pw = IF past_window.has THEN past_window ELSE @]

\* redis MGET of one second's pair of keys: a missing key counts 0.
mget(redisv, sec) == IF sec \in DOMAIN redisv THEN redisv[sec] ELSE Zero

\* Keys of second sec carry EXPIREAT sec + 2 * window.
expired(sec, t) == strftime(t) >= sec + 2 * DEFAULT_WINDOW

expire(redisv, t) == [sec \in DOMAIN redisv |-> IF expired(sec, t) THEN Zero ELSE redisv[sec]]

\* BreakerBaseStrategy.seconds_remaining_until_circuit_is_open:
\* ceil of a positive remainder, floor of the others.
seconds_remaining_until_circuit_is_open(s, t) ==
    LET remain == (s._opened + timedelta(s._recovery_timeout)) - t
    IN IF remain > 0 THEN (remain + 1) \div 2 ELSE remain \div 2

\* The state property: reading it closes an OPEN breaker whose timer is out.
state(w, t) ==
    IF w.s._state = "OPEN" /\ seconds_remaining_until_circuit_is_open(w.s, t) <= 0
    THEN reset_breaker([w EXCEPT !.s._state = "CLOSED", !.s._opened = t,
                                 !.s._failure_count = 0])
    ELSE w

\* An _open_circuit that leaves the state as it is.
_open_circuit_skipped(w, t) == w

\* An _open_circuit that opens, and restarts the timer, whatever the state.
_open_circuit_always(w, t) ==
    LET open(w1) == [w1 EXCEPT !.s._state = "OPEN", !.s._opened = t]
    IN open(state(w, t))

_open_circuit(w, t) ==
    LET open(w1) == IF w1.s._state = "CLOSED"
                    THEN [w1 EXCEPT !.s._state = "OPEN", !.s._opened = t]
                    ELSE w1
    IN open(state(w, t))

_close_circuit(w, t) ==
    LET close(w1) == IF w1.s._state = "OPEN" THEN [w1 EXCEPT !.s._state = "CLOSED"] ELSE w1
    IN close(state(w, t))

\* DistributedPods.sync: INCRBY of the non-zero counters, then reset_breaker.
sync(w, t) ==
    LET sec == strftime(t)
        success_count == w.buf.success
        failure_count == w.buf.failed
    IN IF ~w.up /\ (success_count > 0 \/ failure_count > 0)
       THEN [w EXCEPT !.exc = "store"]
       ELSE reset_breaker(
              [w EXCEPT !.redis[sec].success = @ + success_count,
                        !.redis[sec].failed = @ + failure_count,
                        !.fl[sec].success = @ + success_count,
                        !.fl[sec].failed = @ + failure_count])

\* fetch_window_data_from_redis: the seconds from the window start to now.
fetch_window_data_from_redis(w, past_window, t) ==
    LET previous_window_start ==
            IF ~past_window.has
            THEN strftime(t - timedelta(w.s.config.window + w.s._read_delay))
            ELSE strftime(strptime(past_window.end) - timedelta(w.s._read_delay))
    IN [has |-> TRUE, end |-> strftime(t),
        window |-> [sec \in previous_window_start..strftime(t) |-> mget(w.redis, sec)]]

\* Whether __fetch_past_window_from_store reads redis.
is_stale(w, t) ==
    LET past_window == get_past_window(w)
    IN \/ ~past_window.has
       \/ t - strptime(past_window.end) > timedelta(w.s._read_delay)

\* __fetch_past_window_from_store: returns (win, updated).  On a refresh the
\* buffer is injected at the current second; with sync the buffer is then
\* flushed and the snapshot stored.  reads counts the handler's range reads.
fetch_past_window_from_store(w, do_sync, t) ==
    LET past_window == get_past_window(w)
        save(w1, injected) ==
            IF do_sync /\ w1.exc = "none" THEN update_past_window(w1, injected) ELSE w1
        refresh(injected) ==
            [save(IF do_sync THEN sync(w, t) ELSE w, injected)
                EXCEPT !.win = injected, !.updated = TRUE, !.reads = @ + 1]
    IN IF ~is_stale(w, t)
       THEN [w EXCEPT !.win = past_window, !.updated = FALSE]
       ELSE IF ~w.up
       THEN [w EXCEPT !.exc = "store"]
       ELSE refresh([fetch_window_data_from_redis(w, past_window, t)
                        EXCEPT !.window[strftime(t)] = w.buf])

RECURSIVE SumWindow(_, _, _)
SumWindow(window, S, field) ==
    IF S = {} THEN 0
    ELSE LET sec == CHOOSE x \in S : TRUE
         IN window[sec][field] + SumWindow(window, S \ {sec}, field)

\* The (total_events, total_failures) pair of _should_open / _should_close.
totals(window, buffered_success, buffered_failure) ==
    LET past_failures == SumWindow(window, DOMAIN window, "failed")
        past_successes == SumWindow(window, DOMAIN window, "success")
        total_failures == past_failures + buffered_failure
    IN [valid |-> TRUE,
        events |-> total_failures + past_successes + buffered_success,
        failures |-> total_failures]

\* The view of a decision: the snapshot's sums plus the buffered counts, which
\* are read again from the store's entry when the snapshot was refreshed.
view(w1, buffered_success, buffered_failure) ==
    totals(w1.win.window,
           IF w1.updated THEN w1.buf.success ELSE buffered_success,
           IF w1.updated THEN w1.buf.failed ELSE buffered_failure)

\* A _should_open that looks at the volume only, not at the failure ratio.
_should_open_on_volume(w, buffered_success, buffered_failure, do_sync, t) ==
    LET decide(w1, v) ==
            [w1 EXCEPT !.view = v,
                       !.ret = v.events >= w1.s.config.min_requests]
        fetched(w1) ==
            IF w1.exc # "none" THEN w1
            ELSE decide(w1, view(w1, buffered_success, buffered_failure))
    IN fetched(fetch_past_window_from_store(w, do_sync, t))

\* A _should_open that syncs whatever its caller asked for.
_should_open_syncing(w, buffered_success, buffered_failure, do_sync, t) ==
    LET decide(w1, v) ==
            [w1 EXCEPT !.view = v,
                       !.ret = /\ v.events >= w1.s.config.min_requests
                               /\ v.failures * 100 >= w1.s.config.error_threshold_open * v.events]
        fetched(w1) ==
            IF w1.exc # "none" THEN w1
            ELSE decide(w1, view(w1, buffered_success, buffered_failure))
    IN fetched(fetch_past_window_from_store(w, TRUE, t))

_should_open(w, buffered_success, buffered_failure, do_sync, t) ==
    LET decide(w1, v) ==
            [w1 EXCEPT !.view = v,
                       !.ret = /\ v.events >= w1.s.config.min_requests
                               /\ v.failures * 100 >= w1.s.config.error_threshold_open * v.events]
        fetched(w1) ==
            IF w1.exc # "none" THEN w1
            ELSE decide(w1, view(w1, buffered_success, buffered_failure))
    IN fetched(fetch_past_window_from_store(w, do_sync, t))

\* A _should_close that answers True whatever the view.
_should_close_always(w, buffered_success, buffered_failure, t) ==
    LET decide(w1, v) == [w1 EXCEPT !.view = v, !.ret = TRUE]
        fetched(w1) ==
            IF w1.exc # "none" THEN w1
            ELSE decide(w1, view(w1, buffered_success, buffered_failure))
    IN fetched(fetch_past_window_from_store(w, TRUE, t))

_should_close(w, buffered_success, buffered_failure, t) ==
    LET decide(w1, v) ==
            [w1 EXCEPT !.view = v,
                       !.ret = /\ v.events # 0
                               /\ v.failures * 100 <= w1.s.config.error_threshold_close * v.events]
        fetched(w1) ==
            IF w1.exc # "none" THEN w1
            ELSE decide(w1, view(w1, buffered_success, buffered_failure))
    IN fetched(fetch_past_window_from_store(w, TRUE, t))

handle_error(w, t) ==
    LET decided(w2) ==
            IF w2.exc # "none" THEN w2
            ELSE IF w2.ret THEN _open_circuit(w2, t) ELSE w2
        after_record(w1) == decided(_should_open(w1, w1.buf.success, w1.buf.failed, TRUE, t))
    IN after_record(record_failure([w EXCEPT !.s._failure_count = @ + 1], t))

handle_success(w, t) ==
    LET decided(w2) ==
            IF w2.exc # "none" THEN w2
            ELSE IF w2.ret THEN _close_circuit(w2, t) ELSE w2
        after_record(w1) ==
            IF w1.s._state = "OPEN"
            THEN decided(_should_close(w1, w1.buf.success, w1.buf.failed, t))
            ELSE w1
    IN after_record(record_success(w, t))

\* DistributedPods.feature_flag_enabled: the flag of the breaker's name.
feature_flag_enabled(flag) == flag

\* is_failure with included_errors = [Exception]: every raised Exception
\* counts, no other BaseException does.
is_failure(f) == f = "raise"

\* An __exit__ that reports the outcome whatever the flag says.
exit_ignoring_flag(w, f, flag, t) ==
    IF is_failure(f) THEN handle_error(w, t) ELSE handle_success(w, t)

\* BreakerService.__exit__ after the guarded body did f.
exit(w, f, flag, t) ==
    IF ~feature_flag_enabled(flag) THEN w
    ELSE IF is_failure(f) THEN handle_error(w, t)
    ELSE handle_success(w, t)

----------------------------------------------------------------------------
\* The registry lookups, for the one breaker name.

\* circuit(name, **o): the installed BreakerService, or a new one built from o.
\* n is the number of services built so far in the process.
circuit(installed, o, n) ==
    IF installed.has THEN installed ELSE BreakerService(o, n + 1)

\* BreakerStrategiesSingleton.get_strategy: the installed strategy, or a new
\* DistributedPods built from the asking service's options.
\* A lookup that never finds the installed strategy.
get_strategy_always_new(installed, svc, n, t) == DistributedPods(svc, n + 1, t)

get_strategy(installed, svc, n, t) ==
    IF installed.has THEN installed ELSE DistributedPods(svc, n + 1, t)

\* What the caller of the wrapper gets.
Value == "value"
OriginalError == "error"
Fallback == "fallback"
CircuitBreakerError == "CircuitBreakerError"
StoreError == "store_error"
Exhausted == "StopIteration"
Closed == "closed"

Generator == "generator_object"

FunctionResult(f) ==
    IF f = "ok" THEN Value
    ELSE IF f = GeneratorFunction THEN Generator
    ELSE OriginalError

\* A wrapper that forgets the fallback and always raises.
reject_without_fallback(w) == CircuitBreakerError

\* The caller gets the fallback's value or CircuitBreakerError(strategy).
reject(w) == IF w.s._fallback_function THEN Fallback ELSE CircuitBreakerError

\* BreakerService.call: `with self: return func()`; an exception raised by
\* __exit__ replaces the function's own result.
call(w, f, flag, t) ==
    LET exited(w1) ==
            [w |-> w1, ran |-> TRUE,
             result |-> IF w1.exc # "none" THEN StoreError ELSE FunctionResult(f),
             pretrip |-> FALSE, preview |-> w.view, postview |-> w1.view,
             refreshed |-> w1.updated]
    IN exited(exit([w EXCEPT !.view = NoView, !.ret = FALSE, !.updated = FALSE], f, flag, t))

\* BreakerService.call_generator, called: a generator function returns its
\* generator without running any of its body.
call_generator(w) ==
    [w |-> w, ran |-> FALSE, result |-> Generator, pretrip |-> FALSE,
     preview |-> w.view, postview |-> NoView, refreshed |-> FALSE]

\* A decorate that takes every function for a plain one.
isgeneratorfunction_never(f) == FALSE

isgeneratorfunction(f) == f = GeneratorFunction

\* The `call` that decorate picked for the function.
decorate(w, f, flag, t) ==
    IF isgeneratorfunction(f) THEN call_generator(w) ELSE call(w, f, flag, t)

\* decorate.wrapper, after get_strategy().  The store answers as w.up says
\* until the function is called, and as up_exit says once it has run.
wrapper(w, f, flag, t, up_exit) ==
    LET \* `if strategy.opened`: w1 is the world at `strategy.closed`, w2 after
        \* the pre-call check, w4 at `strategy.opened`.
        admit(w1, w2, w4) ==
            IF w4.s._state = "OPEN"
            THEN [w |-> w4, ran |-> FALSE, result |-> reject(w4),
                  pretrip |-> w1.s._state = "CLOSED",
                  preview |-> w2.view, postview |-> NoView,
                  refreshed |-> w2.updated]
            ELSE [decorate([w4 EXCEPT !.up = up_exit], f, flag, t) EXCEPT !.preview = w2.view]
        checked(w1, w2) ==
            IF w2.exc # "none"
            THEN [w |-> w2, ran |-> FALSE, result |-> StoreError, pretrip |-> FALSE,
                  preview |-> NoView, postview |-> NoView, refreshed |-> FALSE]
            ELSE admit(w1, w2, state(IF w1.s._state = "CLOSED" /\ w2.ret
                                     THEN _open_circuit(w2, t) ELSE w2, t))
        closed(w1) ==
            checked(w1, IF w1.s._state = "CLOSED"
                        THEN _should_open(w1, w1.buf.success, w1.buf.failed, FALSE, t)
                        ELSE w1)
    IN IF ~feature_flag_enabled(flag) THEN decorate([w EXCEPT !.up = up_exit], f, flag, t)
       ELSE closed(state(w, t))

----------------------------------------------------------------------------
VARIABLES
    breakers,    \* per process: BreakerInstancesSingleton._breakers[name]
    strategies,  \* per process: BreakerStrategiesSingleton._strategies[name]
    circuits,    \* per process: CircuitStoreSingleton.__circuits[name]
    redis,       \* shared: second -> the success / failure counters
    site,        \* the options at the program's call site: circuit(name, **site)
    now,         \* the clock, in half seconds
    flag,        \* the feature flag of the breaker name
    created,     \* per process: how many services / strategies were built
    recorded,    \* history, per process: outcomes recorded, per second
    flushed,     \* history, per process: counts written to redis, per second
    ncalls,      \* history: guarded calls made so far, by kind
    last,        \* history: the last operation and what its caller got
    threads,     \* per thread: where it is in circuit() / get_strategy()
    lookups,     \* history: what the registry lookups returned
    gen          \* the generator a wrapped generator function returned

vars == <<breakers, strategies, circuits, redis, site, now, flag, created,
          recorded, flushed, ncalls, last, threads, lookups, gen>>

Idle == [pc |-> "idle", svc |-> NoService, inst |-> NoStrategy, ops |-> 0]

NoLookups == [observed |-> {}, returned |-> 0, raced |-> FALSE,
              wraps |-> {}, first |-> NoOptions]

\* No generator; pc is "created" before the first next(), "suspended" at a
\* yield, "finished" once the body has ended, "closed" if it never started.
\* recorded counts the outcomes its steps recorded.
NoGenerator == [pc |-> "none", r |-> "A", yielded |-> 0, recorded |-> Zero]

NoOp == [op |-> "none", r |-> "A", f |-> "ok", opts |-> NoOptions, up |-> TRUE,
         up_exit |-> TRUE, arrived |-> "NONE",
         expired |-> FALSE, pretrip |-> FALSE, ran |-> FALSE, result |-> "none",
         tripped |-> FALSE, preview |-> NoView, postview |-> NoView, refreshed |-> FALSE,
         reads |-> 0, service |-> 0, instance |-> 0]

Init ==
    /\ strategies = [r \in Replicas |-> NoStrategy]
    /\ circuits = [r \in Replicas |-> [buf |-> Zero, pw |-> EmptyPW]]
    /\ redis = ZeroBuckets
    /\ site \in WrapOptions
    /\ breakers = [r \in Replicas |-> circuit(NoService, site, 0)]
    /\ now = 0
    /\ flag \in BOOLEAN
    /\ created = [r \in Replicas |-> [services |-> 1, strategies |-> 0]]
    /\ recorded = [r \in Replicas |-> ZeroBuckets]
    /\ flushed = [r \in Replicas |-> ZeroBuckets]
    /\ ncalls = [calls |-> 0, peer |-> 0, uses |-> 0, outages |-> 0]
    /\ last = NoOp
    /\ threads = [th \in Threads |-> Idle]
    /\ lookups = NoLookups
    /\ gen = NoGenerator

Max(a, b) == IF a >= b THEN a ELSE b

\* Whether the exploration's budget allows one more guarded call.
Allowed(r, kind, up) ==
    /\ r = Peer => strategies["A"].has
    /\ ncalls.calls < MaxCalls
    /\ r = Peer => ncalls.peer < MaxPeerCalls
    /\ kind = "use" => ncalls.uses < MaxUses
    /\ ~up => ncalls.outages < MaxOutages

Count(r, kind, up) ==
    [calls |-> ncalls.calls + 1,
     peer |-> ncalls.peer + (IF r = Peer THEN 1 ELSE 0),
     uses |-> ncalls.uses + (IF kind = "use" THEN 1 ELSE 0),
     outages |-> ncalls.outages + (IF up THEN 0 ELSE 1)]

\* The variables after a handler that ran on strategy s0 and ended in world w.
Commit(r, s0, w) ==
    /\ strategies' = [strategies EXCEPT ![r] = w.s]
    /\ created' = [created EXCEPT ![r].strategies = Max(@, s0.id)]
    /\ circuits' = [circuits EXCEPT ![r] = [buf |-> w.buf, pw |-> w.pw]]
    /\ redis' = w.redis
    /\ recorded' = [recorded EXCEPT ![r] = w.rec]
    /\ flushed' = [flushed EXCEPT ![r] = w.fl]
    /\ UNCHANGED <<breakers, site, now, flag, threads, lookups>>

\* What replica r has recorded in world w beyond its history so far.
Delta(r, w) ==
    [success |-> SumWindow(w.rec, Secs, "success") - SumWindow(recorded[r], Secs, "success"),
     failed |-> SumWindow(w.rec, Secs, "failed") - SumWindow(recorded[r], Secs, "failed")]

Arrival(r, s0) ==
    [NoOp EXCEPT !.r = r,
                 !.arrived = IF strategies[r].has THEN s0._state ELSE "NONE",
                 !.expired = /\ s0._state = "OPEN"
                             /\ seconds_remaining_until_circuit_is_open(s0, now) <= 0,
                 !.service = breakers[r].id,
                 !.instance = s0.id]

\* One call of the decorated function, whose body does f, while the shared
\* store answers or is unreachable: up before the function runs, up_exit
\* after it.
Invoke(r, f, up, up_exit) ==
    /\ Allowed(r, "call", up /\ up_exit)
    /\ isgeneratorfunction(f) => gen.pc \notin {"created", "suspended"}
    /\ ncalls' = Count(r, "call", up /\ up_exit)
    /\ LET returned(s0, res) ==
               /\ Commit(r, s0, res.w)
               /\ gen' = IF res.result = Generator
                          THEN [NoGenerator EXCEPT !.pc = "created", !.r = r,
                                                   !.recorded = Delta(r, res.w)]
                          ELSE gen
               /\ last' = [Arrival(r, s0) EXCEPT
                             !.op = "call", !.f = f, !.up = up, !.pretrip = res.pretrip,
                             !.ran = res.ran, !.result = res.result,
                             !.tripped = res.ran /\ res.w.s._state = "OPEN",
                             !.preview = res.preview, !.postview = res.postview,
                             !.refreshed = res.refreshed, !.reads = res.w.reads,
                             !.up_exit = up_exit]
           on(s0) ==
               returned(s0, wrapper(World(s0, circuits[r], redis, up, recorded[r], flushed[r]),
                                    f, flag, now, up_exit))
       IN on(get_strategy(strategies[r], breakers[r], created[r].strategies, now))

\* A call during which the store's reachability does not change.
Call(r, f, up) == Invoke(r, f, up, up)

\* The scoped guard: `with circuit(name): body`, whose body does f.
\* __enter__ does nothing; __exit__ reports the outcome.
Use(r, f, up) ==
    /\ Allowed(r, "use", up)
    /\ ncalls' = Count(r, "use", up)
    /\ LET returned(s0, res) ==
               /\ Commit(r, s0, res.w)
               /\ UNCHANGED gen
               /\ last' = [Arrival(r, s0) EXCEPT
                             !.op = "use", !.f = f, !.up = up, !.ran = res.ran,
                             !.result = res.result,
                             !.tripped = s0._state = "CLOSED" /\ res.w.s._state = "OPEN",
                             !.postview = res.postview, !.refreshed = res.refreshed,
                             !.reads = res.w.reads, !.up_exit = up]
           on(s0) ==
               returned(s0, call(World(s0, circuits[r], redis, up, recorded[r], flushed[r]),
                                 f, flag, now))
       IN on(get_strategy(strategies[r], breakers[r], created[r].strategies, now))

\* Half a second passes; redis drops the keys whose EXPIREAT is reached.
\* Time is explored while guarded calls remain to be made, and before the
\* first call only as far as the phase within the second (the behaviours are
\* the same up to a shift by whole seconds).
Tick ==
    /\ now < MaxTick
    /\ ncalls.calls < MaxCalls
    /\ ncalls.calls = 0 => now = 0
    /\ now' = now + 1
    /\ redis' = expire(redis, now + 1)
    /\ last' = [NoOp EXCEPT !.op = "tick"]
    /\ UNCHANGED <<breakers, strategies, circuits, site, flag, created, recorded,
                   flushed, ncalls, threads, lookups, gen>>

Next ==
    \/ \E r \in Replicas, f \in Outcomes, up \in BOOLEAN : Call(r, f, up)
    \/ \E r \in Replicas, f \in Outcomes, up \in BOOLEAN : Use(r, f, up)
    \/ Tick

Spec == Init /\ [][Next]_vars

\* The replicas sit idle for longer than the window: no call is made while
\* window + read_delay seconds pass (once in a run, between two calls).
Sleep ==
    /\ 0 < ncalls.calls /\ ncalls.calls < MaxCalls
    /\ now <= MaxTick
    /\ now' = now + IdleTicks
    /\ redis' = expire(redis, now + IdleTicks)
    /\ last' = [NoOp EXCEPT !.op = "sleep"]
    /\ UNCHANGED <<breakers, strategies, circuits, site, flag, created, recorded,
                   flushed, ncalls, threads, lookups, gen>>

NextIdle ==
    \/ \E r \in Replicas, f \in Outcomes, up \in BOOLEAN : Call(r, f, up)
    \/ \E r \in Replicas, f \in Outcomes, up \in BOOLEAN : Use(r, f, up)
    \/ Tick
    \/ Sleep

\* The program with idle periods.
SpecIdle == Init /\ [][NextIdle]_vars

\* One replica whose functions may also raise unclassified errors, with a
\* store that may come and go while a function runs.
NextWrap ==
    \/ \E f \in Outcomes \cup Unclassified, up \in BOOLEAN, up_exit \in BOOLEAN :
          Invoke("A", f, up, up_exit)
    \/ \E f \in Outcomes \cup Unclassified, up \in BOOLEAN : Use("A", f, up)
    \/ Tick

SpecWrap == Init /\ [][NextWrap]_vars

\* The wrapper called on a generator function: admission, then the generator.
GenCall(up) == Invoke("A", GeneratorFunction, up, up)

\* next() on the generator gives an element.  The first next() enters
\* `with self` (__enter__ does nothing) and starts the function's body.
GenNext ==
    /\ gen.pc \in {"created", "suspended"}
    /\ gen.yielded < MaxYield
    /\ gen' = [gen EXCEPT !.pc = "suspended", !.yielded = @ + 1]
    /\ last' = [NoOp EXCEPT !.op = "next", !.r = gen.r]
    /\ UNCHANGED <<breakers, strategies, circuits, redis, site, now, flag, created,
                   recorded, flushed, ncalls, threads, lookups>>

\* The history of a generator whose step ended in world w.
Reported(w) ==
    [gen EXCEPT !.recorded = [success |-> @.success + Delta(gen.r, w).success,
                              failed |-> @.failed + Delta(gen.r, w).failed]]

\* next() on the generator finds the body ended (f = "ok": the for loop ends
\* and `with self` is left normally) or raising: __exit__ reports.
GenEnd(f, up) ==
    /\ gen.pc \in {"created", "suspended"}
    /\ ~up => ncalls.outages < MaxOutages
    /\ ncalls' = [ncalls EXCEPT !.outages = @ + (IF up THEN 0 ELSE 1)]
    /\ LET returned(s0, res) ==
               /\ Commit(gen.r, s0, res.w)
               /\ gen' = [Reported(res.w) EXCEPT !.pc = "finished"]
               /\ last' = [Arrival(gen.r, s0) EXCEPT
                             !.op = "end", !.f = f, !.up = up, !.up_exit = up, !.ran = TRUE,
                             !.result = IF res.result = Value THEN Exhausted ELSE res.result,
                             !.tripped = s0._state = "CLOSED" /\ res.w.s._state = "OPEN",
                             !.postview = res.postview, !.refreshed = res.refreshed,
                             !.reads = res.w.reads]
           on(s0) ==
               returned(s0, call(World(s0, circuits[gen.r], redis, up, recorded[gen.r],
                                       flushed[gen.r]), f, flag, now))
       IN on(get_strategy(strategies[gen.r], breakers[gen.r], created[gen.r].strategies, now))

\* The consumer closes the generator, or drops it and the collector closes
\* it.  A generator that never started just ends; one suspended at its yield
\* gets GeneratorExit there, which leaves `with self` through __exit__.
GenClose(up) ==
    /\ gen.pc \in {"created", "suspended"}
    /\ ~up => ncalls.outages < MaxOutages
    /\ ncalls' = [ncalls EXCEPT !.outages = @ + (IF up THEN 0 ELSE 1)]
    /\ LET returned(s0, res) ==
               /\ Commit(gen.r, s0, res.w)
               /\ gen' = [Reported(res.w) EXCEPT !.pc = "closed"]
               /\ last' = [Arrival(gen.r, s0) EXCEPT
                             !.op = "close", !.f = "interrupt", !.up = up, !.up_exit = up,
                             !.ran = gen.pc = "suspended",
                             !.result = IF res.result = StoreError THEN StoreError ELSE Closed,
                             !.tripped = s0._state = "CLOSED" /\ res.w.s._state = "OPEN",
                             !.postview = res.postview, !.refreshed = res.refreshed,
                             !.reads = res.w.reads]
           never_started(s0, w) ==
               returned(s0, [w |-> w, result |-> Closed, postview |-> NoView, refreshed |-> FALSE])
           on(s0) ==
               IF gen.pc = "created"
               THEN never_started(strategies[gen.r],
                                  World(strategies[gen.r], circuits[gen.r], redis, up,
                                        recorded[gen.r], flushed[gen.r]))
               ELSE returned(s0, call(World(s0, circuits[gen.r], redis, up, recorded[gen.r],
                                            flushed[gen.r]), "interrupt", flag, now))
       IN on(get_strategy(strategies[gen.r], breakers[gen.r], created[gen.r].strategies, now))

\* One replica that wraps a plain function, called while the store answers,
\* and a generator function.
NextGen ==
    \/ \E f \in Outcomes : Call("A", f, TRUE)
    \/ \E up \in BOOLEAN : GenCall(up)
    \/ GenNext
    \/ \E f \in Outcomes \cup Unclassified, up \in BOOLEAN : GenEnd(f, up)
    \/ \E up \in BOOLEAN : GenClose(up)
    \/ Tick

SpecGen == Init /\ [][NextGen]_vars

----------------------------------------------------------------------------
(***************************************************************************)
(* The registry under threads.  circuit() and get_strategy() test           *)
(* `name in map`, build the object and then store it: three steps that      *)
(* other threads can interleave with.  A thread is between its test and its *)
(* store while its pc is "wrap_install" or "lookup_install".                *)
(***************************************************************************)
InitReg ==
    /\ strategies = [r \in Replicas |-> NoStrategy]
    /\ circuits = [r \in Replicas |-> [buf |-> Zero, pw |-> EmptyPW]]
    /\ redis = ZeroBuckets
    /\ site = NoOptions
    /\ breakers = [r \in Replicas |-> NoService]
    /\ now = 0
    /\ flag = TRUE
    /\ created = [r \in Replicas |-> [services |-> 0, strategies |-> 0]]
    /\ recorded = [r \in Replicas |-> ZeroBuckets]
    /\ flushed = [r \in Replicas |-> ZeroBuckets]
    /\ ncalls = [calls |-> 0, peer |-> 0, uses |-> 0, outages |-> 0]
    /\ last = NoOp
    /\ threads = [th \in Threads |-> Idle]
    /\ lookups = NoLookups
    /\ gen = NoGenerator

MidOperation(th) == threads[th].pc \in {"wrap_install", "lookup_install"}

\* Whether thread th starts an operation while another thread is inside one.
Overlaps(th) == \E other \in Threads \ {th} : MidOperation(other)

RegUnchanged ==
    UNCHANGED <<circuits, redis, site, now, flag, recorded, flushed, ncalls, last, gen>>

\* circuit(name, **o), up to the return of an installed service or to the
\* construction of a new one.
WrapCheck(th, o) ==
    /\ threads[th].pc \in {"idle", "ready"}
    /\ threads[th].ops < MaxOps
    /\ LET got == circuit(breakers[Proc], o, created[Proc].services)
       IN /\ threads' = [threads EXCEPT ![th].svc = got,
                                        ![th].ops = @ + 1,
                                        ![th].pc = IF breakers[Proc].has THEN "ready"
                                                   ELSE "wrap_install"]
          /\ created' = [created EXCEPT ![Proc].services = Max(@, got.id)]
    /\ lookups' = [lookups EXCEPT !.raced = @ \/ Overlaps(th),
                                  !.wraps = @ \cup {o},
                                  !.first = IF lookups.wraps = {} THEN o ELSE @]
    /\ UNCHANGED <<breakers, strategies>>
    /\ RegUnchanged

\* breaker_instances.breakers = {"name": name, "instance": breaker_instance}
WrapInstall(th) ==
    /\ threads[th].pc = "wrap_install"
    /\ breakers' = [breakers EXCEPT ![Proc] = threads[th].svc]
    /\ threads' = [threads EXCEPT ![th].pc = "ready"]
    /\ UNCHANGED <<strategies, created, lookups>>
    /\ RegUnchanged

\* BreakerService.get_strategy(), up to the return of an installed strategy
\* or to the construction of a new one.
LookupCheck(th) ==
    /\ threads[th].pc = "ready"
    /\ threads[th].ops < MaxOps
    /\ LET got == get_strategy(strategies[Proc], threads[th].svc,
                               created[Proc].strategies, now)
       IN /\ created' = [created EXCEPT ![Proc].strategies = Max(@, got.id)]
          /\ IF strategies[Proc].has
             THEN /\ threads' = [threads EXCEPT ![th].inst = got, ![th].ops = @ + 1]
                  /\ lookups' = [lookups EXCEPT !.raced = @ \/ Overlaps(th),
                                                !.observed = @ \cup {got},
                                                !.returned = @ + 1]
             ELSE /\ threads' = [threads EXCEPT ![th].inst = got, ![th].ops = @ + 1,
                                                ![th].pc = "lookup_install"]
                  /\ lookups' = [lookups EXCEPT !.raced = @ \/ Overlaps(th)]
    /\ UNCHANGED <<breakers, strategies>>
    /\ RegUnchanged

\* self.strategies = {"strategy": instance, "name": name}; return instance
LookupInstall(th) ==
    /\ threads[th].pc = "lookup_install"
    /\ strategies' = [strategies EXCEPT ![Proc] = threads[th].inst]
    /\ threads' = [threads EXCEPT ![th].pc = "ready"]
    /\ lookups' = [lookups EXCEPT !.observed = @ \cup {threads[th].inst},
                                  !.returned = @ + 1]
    /\ UNCHANGED <<breakers, created>>
    /\ RegUnchanged

NextReg ==
    \/ \E th \in Threads, o \in WrapOptions : WrapCheck(th, o)
    \/ \E th \in Threads : WrapInstall(th)
    \/ \E th \in Threads : LookupCheck(th)
    \/ \E th \in Threads : LookupInstall(th)

SpecReg == InitReg /\ [][NextReg]_vars

----------------------------------------------------------------------------
(***************************************************************************)
(* The outcome path under threads.  Several threads of one process report   *)
(* outcomes for the one breaker; the code takes no lock, so the steps of     *)
(* handle_error / handle_success interleave: the counter's `+=` (a load and  *)
(* a store), the range read of redis, the flush, and the reset with the      *)
(* store of the snapshot.  entry names the dictionary that is the breaker's  *)
(* circuit entry (reset_breaker replaces it), issued counts the record       *)
(* calls issued on it.                                                       *)
(***************************************************************************)

\* Outcomes each thread reports, and the half seconds that pass meanwhile.
MaxOutcomes == MaxCalls \div 2
MaxElapse == MaxCalls \div 2 + 1

Resting == [pc |-> "idle", f |-> "ok", tmp |-> 0, entry |-> 0, dt_now |-> 0,
            win |-> EmptyPW, ops |-> 0]

InitThreads ==
    /\ breakers = [r \in Replicas |-> circuit(NoService, NoOptions, 0)]
    /\ strategies = [r \in Replicas |->
                       IF r = Proc THEN get_strategy(NoStrategy, breakers[r], 0, 0)
                       ELSE NoStrategy]
    /\ circuits = [r \in Replicas |-> [buf |-> Zero, pw |-> EmptyPW, entry |-> 0, issued |-> 0]]
    /\ redis = ZeroBuckets
    /\ site = NoOptions
    /\ now = 0
    /\ flag = TRUE
    /\ created = [r \in Replicas |-> [services |-> 1, strategies |-> IF r = Proc THEN 1 ELSE 0]]
    /\ recorded = [r \in Replicas |-> ZeroBuckets]
    /\ flushed = [r \in Replicas |-> ZeroBuckets]
    /\ ncalls = [calls |-> 0, peer |-> 0, uses |-> 0, outages |-> 0]
    /\ last = NoOp
    /\ threads = [th \in Threads |-> Resting]
    /\ lookups = NoLookups
    /\ gen = NoGenerator

Counter(f) == IF f = "ok" THEN "success" ELSE "failed"

\* The world a thread's step runs on.
Here == World(strategies[Proc], circuits[Proc], redis, TRUE, recorded[Proc], flushed[Proc])

ThreadsUnchanged ==
    UNCHANGED <<breakers, site, flag, created, ncalls, last, lookups, gen>>

\* What the process holds after a step that ended in world w: a step that
\* reset the breaker's entry left a new dictionary.
Held(w) ==
    IF w.buf = circuits[Proc].buf /\ w.pw = circuits[Proc].pw
    THEN circuits[Proc]
    ELSE [buf |-> w.buf, pw |-> w.pw, entry |-> circuits[Proc].entry + 1, issued |-> 0]

\* handle_error / handle_success after _should_open / _should_close has its
\* view v: open or close the circuit.
transition(w, f, v) ==
    IF f = "raise"
    THEN IF /\ v.events >= w.s.config.min_requests
            /\ v.failures * 100 >= w.s.config.error_threshold_open * v.events
         THEN _open_circuit(w, now) ELSE w
    ELSE IF /\ v.events # 0
            /\ v.failures * 100 <= w.s.config.error_threshold_close * v.events
         THEN _close_circuit(w, now) ELSE w

\* record_success / record_failure, first half of `counter += 1`: the entry
\* and its counter are loaded.
RecordLoad(th, f) ==
    /\ threads[th].pc = "idle"
    /\ threads[th].ops < MaxOutcomes
    /\ threads' = [threads EXCEPT ![th] =
                     [Resting EXCEPT !.pc = "rec", !.f = f,
                                     !.tmp = circuits[Proc].buf[Counter(f)],
                                     !.entry = circuits[Proc].entry,
                                     !.ops = threads[th].ops + 1]]
    /\ circuits' = [circuits EXCEPT ![Proc].issued = @ + 1]
    /\ strategies' = [strategies EXCEPT ![Proc]._failure_count =
                        @ + (IF f = "raise" THEN 1 ELSE 0)]
    /\ UNCHANGED <<redis, now, recorded, flushed>>
    /\ ThreadsUnchanged

\* Second half of `counter += 1`: the sum is stored in the dictionary that
\* was loaded, which a reset may have replaced meanwhile.  A success on a
\* CLOSED breaker ends here.
RecordStore(th) ==
    /\ threads[th].pc = "rec"
    /\ circuits' = [circuits EXCEPT ![Proc].buf[Counter(threads[th].f)] =
                      IF threads[th].entry = circuits[Proc].entry
                      THEN threads[th].tmp + 1 ELSE @]
    /\ recorded' = [recorded EXCEPT ![Proc][strftime(now)][Counter(threads[th].f)] = @ + 1]
    /\ threads' = [threads EXCEPT ![th] =
                     IF threads[th].f = "raise" \/ strategies[Proc]._state = "OPEN"
                     THEN [@ EXCEPT !.pc = "fetch", !.tmp = 0, !.entry = 0]
                     ELSE [Resting EXCEPT !.ops = threads[th].ops]]
    /\ UNCHANGED <<strategies, redis, now, flushed>>
    /\ ThreadsUnchanged

\* __fetch_past_window_from_store up to the range read: a fresh snapshot
\* decides at once, a stale or missing one is read again from redis.
FetchRead(th) ==
    /\ threads[th].pc = "fetch"
    /\ LET decided(w) ==
               /\ strategies' = [strategies EXCEPT ![Proc] = w.s]
               /\ circuits' = [circuits EXCEPT ![Proc] = Held(w)]
               /\ threads' = [threads EXCEPT ![th] = [Resting EXCEPT !.ops = threads[th].ops]]
           fresh(w) ==
               decided(transition(w, threads[th].f,
                                  totals(w.pw.window, w.buf.success, w.buf.failed)))
           stale(w) ==
               /\ threads' = [threads EXCEPT ![th] =
                                [@ EXCEPT !.pc = "flush", !.dt_now = now,
                                          !.win = fetch_window_data_from_redis(
                                                      w, get_past_window(w), now)]]
               /\ UNCHANGED <<strategies, circuits>>
           on(w) == IF is_stale(w, now) THEN stale(w) ELSE fresh(w)
       IN on(Here)
    /\ UNCHANGED <<redis, now, recorded, flushed>>
    /\ ThreadsUnchanged

\* The buffer is injected into the window read and sync increments redis
\* by the buffer's counters.
SyncFlush(th) ==
    /\ threads[th].pc = "flush"
    /\ LET sec == strftime(threads[th].dt_now)
           buf == circuits[Proc].buf
       IN /\ threads' = [threads EXCEPT ![th].pc = "save", ![th].win.window[sec] = buf]
          /\ redis' = [redis EXCEPT ![sec].success = @ + buf.success,
                                    ![sec].failed = @ + buf.failed]
          /\ flushed' = [flushed EXCEPT ![Proc][sec].success = @ + buf.success,
                                        ![Proc][sec].failed = @ + buf.failed]
    /\ UNCHANGED <<strategies, circuits, now, recorded>>
    /\ ThreadsUnchanged

\* sync's reset_breaker, update_past_window, and the decision on the view.
SyncSave(th) ==
    /\ threads[th].pc = "save"
    /\ LET decided(w) ==
               /\ strategies' = [strategies EXCEPT ![Proc] = w.s]
               /\ circuits' = [circuits EXCEPT ![Proc] =
                                 [buf |-> w.buf, pw |-> w.pw,
                                  entry |-> circuits[Proc].entry + 1, issued |-> 0]]
           saved(w) ==
               decided(transition(w, threads[th].f,
                                  totals(threads[th].win.window, w.buf.success, w.buf.failed)))
       IN saved(update_past_window(reset_breaker(Here), threads[th].win))
    /\ threads' = [threads EXCEPT ![th] = [Resting EXCEPT !.ops = threads[th].ops]]
    /\ UNCHANGED <<redis, now, recorded, flushed>>
    /\ ThreadsUnchanged

\* Half a second passes while the threads have work left.
Elapse ==
    /\ now < MaxElapse
    /\ \E th \in Threads : threads[th].pc # "idle" \/ threads[th].ops < MaxOutcomes
    /\ now' = now + 1
    /\ redis' = expire(redis, now + 1)
    /\ UNCHANGED <<strategies, circuits, recorded, flushed, threads>>
    /\ ThreadsUnchanged

NextThreads ==
    \/ \E th \in Threads, f \in Outcomes : RecordLoad(th, f)
    \/ \E th \in Threads : RecordStore(th)
    \/ \E th \in Threads : FetchRead(th)
    \/ \E th \in Threads : SyncFlush(th)
    \/ \E th \in Threads : SyncSave(th)
    \/ Elapse

SpecThreads == InitThreads /\ [][NextThreads]_vars

----------------------------------------------------------------------------
(***************************************************************************)
(* Several breaker names in one process.  The registries and the store are  *)
(* keyed by name, and so are the redis keys "breaker:<name>:...": here       *)
(* breakers, strategies, circuits, redis and the histories map a name, not   *)
(* a process, to its value.                                                  *)
(***************************************************************************)
Names == {"orders", "payments"}

\* CircuitStoreSingleton(): __new__ hands out the one instance and __init__
\* then runs on it, binding __circuits to an empty dictionary.
CircuitStoreSingleton(store) ==
    [name \in DOMAIN store |-> [buf |-> Zero, pw |-> EmptyPW]]

\* BreakerBaseStrategy.__init__ on the way of get_strategy: a strategy that
\* is built instantiates the store.
store_after_get_strategy(installed, store) ==
    IF installed.has THEN store ELSE CircuitStoreSingleton(store)

InitNames ==
    /\ breakers = [name \in Names |-> circuit(NoService, NoOptions, 0)]
    /\ strategies = [name \in Names |-> NoStrategy]
    /\ circuits = [name \in Names |-> [buf |-> Zero, pw |-> EmptyPW]]
    /\ redis = [name \in Names |-> ZeroBuckets]
    /\ site = NoOptions
    /\ now = 0
    /\ flag = TRUE
    /\ created = [r \in Replicas |-> [services |-> Cardinality(Names), strategies |-> 0]]
    /\ recorded = [name \in Names |-> ZeroBuckets]
    /\ flushed = [name \in Names |-> ZeroBuckets]
    /\ ncalls = [calls |-> 0, peer |-> 0, uses |-> 0, outages |-> 0]
    /\ last = NoOp
    /\ threads = [th \in Threads |-> Idle]
    /\ lookups = NoLookups
    /\ gen = NoGenerator

\* A wrapped call on the breaker called name.
NamedCall(name, f) ==
    /\ ncalls.calls < MaxCalls
    /\ ncalls' = [ncalls EXCEPT !.calls = @ + 1]
    /\ LET returned(s0, store, res) ==
               /\ strategies' = [strategies EXCEPT ![name] = res.w.s]
               /\ created' = [created EXCEPT ![Proc].strategies = Max(@, s0.id)]
               /\ circuits' = [store EXCEPT ![name] = [buf |-> res.w.buf, pw |-> res.w.pw]]
               /\ redis' = [redis EXCEPT ![name] = res.w.redis]
               /\ recorded' = [recorded EXCEPT ![name] = res.w.rec]
               /\ flushed' = [flushed EXCEPT ![name] = res.w.fl]
               /\ last' = [NoOp EXCEPT !.op = "call", !.r = name, !.f = f,
                                       !.ran = res.ran, !.result = res.result,
                                       !.pretrip = res.pretrip,
                                       !.instance = s0.id]
           on(s0, store) ==
               returned(s0, store,
                        wrapper(World(s0, store[name], redis[name], TRUE,
                                      recorded[name], flushed[name]),
                                f, flag, now, TRUE))
       IN on(get_strategy(strategies[name], breakers[name], created[Proc].strategies, now),
             store_after_get_strategy(strategies[name], circuits))
    /\ UNCHANGED <<breakers, site, now, flag, threads, lookups, gen>>

\* Half a second passes.
Pass ==
    /\ now < MaxElapse
    /\ ncalls.calls < MaxCalls
    /\ now' = now + 1
    /\ redis' = [name \in Names |-> expire(redis[name], now + 1)]
    /\ UNCHANGED <<breakers, strategies, circuits, site, flag, created, recorded, flushed,
                   ncalls, last, threads, lookups, gen>>

NextNames ==
    \/ \E name \in Names, f \in Outcomes : NamedCall(name, f)
    \/ Pass

SpecNames == InitNames /\ [][NextNames]_vars

----------------------------------------------------------------------------
\* Properties of the last operation.

\* The open condition on a view, for the strategy of replica r.
OpenCondition(v, r) ==
    /\ v.valid
    /\ v.events >= strategies[r].config.min_requests
    /\ v.failures * 100 >= strategies[r].config.error_threshold_open * v.events

Rejections == {Fallback, CircuitBreakerError}

\* C1: a wrapped call that finds the breaker OPEN with the recovery timer not
\* expired is denied: the function is not run and the caller gets the
\* fallback's result if the call site configured one, else CircuitBreakerError.
C1_OpenDenies ==
    (last.op = "call" /\ last.arrived = "OPEN" /\ ~last.expired) =>
        /\ ~last.ran
        /\ last.result = (IF site.fallback_function THEN Fallback ELSE CircuitBreakerError)

\* An OPEN breaker answered a call with the fallback.
C1_Witness ==
    /\ last.op = "call" /\ last.arrived = "OPEN" /\ ~last.expired
    /\ ~last.ran /\ last.result = Fallback

\* C2 as stated: a wrapped call arriving while the breaker is CLOSED is always
\* admitted (the store reachable throughout): the function runs and neither
\* the fallback nor the open-circuit error answers it.
C2_ClosedNeverRejects ==
    (last.op = "call" /\ last.arrived = "CLOSED" /\ ncalls.outages = 0) =>
        (last.ran /\ last.result \notin Rejections)

\* C2 amended: a wrapped call arriving while the breaker is CLOSED (feature
\* flag on) is rejected exactly when the pre-call check's view meets the open
\* condition, and its function runs exactly when that check produced a view
\* that does not meet it.
C2_ClosedRejectsOnlyOnPreTrip ==
    (last.op = "call" /\ last.arrived = "CLOSED" /\ flag) =>
        /\ (last.result \in Rejections) <=> OpenCondition(last.preview, last.r)
        /\ last.ran <=> (last.preview.valid /\ ~OpenCondition(last.preview, last.r))
        /\ last.pretrip <=> (last.result \in Rejections)

\* A call that arrived CLOSED was rejected by the pre-call check.
C2_Witness ==
    /\ last.op = "call" /\ last.arrived = "CLOSED" /\ last.pretrip
    /\ ~last.ran /\ last.result \in Rejections

\* C3 as stated: once the recovery timeout has elapsed since the breaker
\* opened, the next wrapped call (store reachable throughout) is admitted, and
\* if its function succeeds the breaker is CLOSED afterwards.
C3_AdmittedAfterRecovery ==
    (/\ last.op = "call" /\ last.arrived = "OPEN" /\ last.expired
     /\ ncalls.outages = 0 /\ ncalls.peer = 0) =>
        /\ last.ran
        /\ last.f = "ok" => strategies[last.r]._state = "CLOSED"

\* What replica r recorded / flushed so far, in the seconds redis still holds.
Live(buckets, field) ==
    SumWindow(buckets, {sec \in DOMAIN buckets : ~expired(sec, now)}, field)

Recorded(r) ==
    [events |-> Live(recorded[r], "success") + Live(recorded[r], "failed"),
     failures |-> Live(recorded[r], "failed")]

Flushed(r) ==
    [events |-> Live(flushed[r], "success") + Live(flushed[r], "failed"),
     failures |-> Live(flushed[r], "failed")]

\* Only replica "A" has made calls, all of them wrapped calls whose function
\* raised, with the store reachable and the feature flag on.
OnlyFailuresOnOneReplica ==
    /\ flag /\ ncalls.peer = 0 /\ ncalls.uses = 0 /\ ncalls.outages = 0
    /\ Recorded("A").events = Recorded("A").failures

\* C4 as stated: on one replica with an empty store, in a run of failing
\* wrapped calls spaced anyhow inside the window, the breaker is CLOSED after
\* each of the first min_requests - 1 calls that ran and OPEN after the
\* min_requests-th.
C4_TripsAtMinRequests ==
    (/\ OnlyFailuresOnOneReplica /\ last.op = "call" /\ last.ran
     /\ timedelta(DEFAULT_WINDOW) > MaxTick) =>
        LET k == Recorded("A").failures
        IN /\ k < strategies["A"].config.min_requests => strategies["A"]._state = "CLOSED"
           /\ k = strategies["A"].config.min_requests => strategies["A"]._state = "OPEN"

\* C5 as stated: the breaker goes CLOSED -> OPEN, on the outcome path or in
\* the pre-call check, only if the outcomes recorded for it by all replicas
\* number at least min_requests.
C5_TripNeedsMinRequests ==
    (/\ last.op \in {"call", "use"} /\ (last.tripped \/ last.pretrip)
     /\ ncalls.outages = 0) =>
        Recorded("A").events + Recorded("B").events
            >= strategies[last.r].config.min_requests

\* C6 as stated: on one replica (store reachable), every (total_events,
\* total_failures) pair the aggregator computes equals the outcomes recorded
\* and not expired: after an outcome, and in a pre-call check that rejects.
C6_ViewCountsEachOutcomeOnce ==
    (last.op \in {"call", "use"} /\ ncalls.peer = 0 /\ ncalls.outages = 0) =>
        /\ last.postview.valid =>
              /\ last.postview.events = Recorded("A").events
              /\ last.postview.failures = Recorded("A").failures
        /\ (last.preview.valid /\ ~last.ran) =>
              /\ last.preview.events = Recorded("A").events
              /\ last.preview.failures = Recorded("A").failures

\* C7 as stated: when the outcomes replica A flushed to the store in earlier
\* seconds together with the outcomes replica B recorded reach min_requests
\* with a failure ratio at or above the open threshold, B is OPEN after a
\* failing call of its own on which it read the store.
C7_PeerTripsOnCombinedView ==
    (/\ last.op = "call" /\ last.r = Peer /\ last.f = "raise" /\ last.ran
     /\ last.refreshed /\ ncalls.outages = 0 /\ ncalls.uses = 0) =>
        LET Earlier == {sec \in Secs : /\ sec < strftime(now)
                                         /\ sec >= strftime(now) - DEFAULT_WINDOW}
            flushed_failures == SumWindow(flushed["A"], Earlier, "failed")
            flushed_events == flushed_failures + SumWindow(flushed["A"], Earlier, "success")
            events == flushed_events + Recorded(Peer).events
            failures == flushed_failures + Recorded(Peer).failures
        IN (/\ events >= strategies[Peer].config.min_requests
            /\ failures * 100 >= strategies[Peer].config.error_threshold_open * events)
           => strategies[Peer]._state = "OPEN"

\* C8 as stated: when the store is unreachable the caller never sees the
\* store's failure, and a failing call that brings the replica's own recorded
\* failures to min_requests (nothing but failures recorded) opens the breaker.
C8_StoreOutageIsAbsorbed ==
    (last.op \in {"call", "use"} /\ ~last.up) =>
        /\ last.result # StoreError
        /\ (/\ last.ran /\ last.f = "raise" /\ flag
            /\ Recorded(last.r).events = Recorded(last.r).failures
            /\ Recorded(last.r).failures >= strategies[last.r].config.min_requests)
           => strategies[last.r]._state = "OPEN"

\* The strategy the first wrap's options give: instance 1 of the process.
FirstInstalled ==
    DistributedPods(BreakerService(lookups.first, 1), 1, now)

\* C9: registry operations made one after another are idempotent: every
\* lookup returns instance 1, configured by the options of the first wrap,
\* whatever options the later wraps passed; the installed strategy is that
\* instance, and every wrap handed out the first service.
C9_SequentialLookupIdempotent ==
    ~lookups.raced =>
        /\ \A x \in lookups.observed : x = FirstInstalled
        /\ strategies[Proc].has => strategies[Proc] = FirstInstalled
        /\ created[Proc].strategies <= 1
        /\ \A th \in Threads :
              threads[th].pc = "ready" => threads[th].svc = BreakerService(lookups.first, 1)

\* Both option sets were passed to wraps made one after another, and the
\* lookups that followed returned several times.
C9_Witness ==
    /\ ~lookups.raced
    /\ lookups.wraps = WrapOptions
    /\ lookups.returned >= 2
    /\ \A th \in Threads : threads[th].pc = "ready"

\* C10 as stated: whatever the interleaving of the threads' first uses, one
\* strategy instance is built per name and every lookup returns it.
C10_OneInstancePerName ==
    /\ created[Proc].strategies <= 1
    /\ Cardinality(lookups.observed) <= 1

C12_SuccessesKeepClosed ==
    last.op \in {"call", "use"} =>
        \/ strategies[last.r]._state = "CLOSED"
        \/ Recorded("A").failures + Recorded("B").failures # 0

\* More than min_requests successful calls have been recorded in the window
\* and no failure.
C12_Witness ==
    /\ last.op = "call" /\ last.ran /\ last.f = "ok"
    /\ Recorded("A").failures + Recorded("B").failures = 0
    /\ Recorded(last.r).events > strategies[last.r].config.min_requests
    /\ strategies[last.r]._state = "CLOSED"

\* C13 as stated: while a replica's breaker is OPEN with its recovery timer
\* running, no step records an outcome in that replica's local buffer or
\* writes its counts to the shared store.
C13_NothingRecordedWhileOpen ==
    [][\A r \in Replicas :
          (/\ strategies[r].has
           /\ strategies[r]._state = "OPEN"
           /\ seconds_remaining_until_circuit_is_open(strategies[r], now) > 0) =>
              /\ recorded'[r] = recorded[r]
              /\ flushed'[r] = flushed[r]
              /\ circuits'[r].buf = circuits[r].buf]_vars

\* The close condition of _should_close on the view v of replica r.
CloseCondition(v, r) ==
    /\ v.valid
    /\ v.events > 0
    /\ v.failures * 100 <= strategies[r].config.error_threshold_close * v.events

\* C14: a breaker goes OPEN -> CLOSED in a step only if that step is a call
\* on it that (a) found the recovery timer expired, or (b) handled a success
\* whose view had at least one event and a failure ratio at most the close
\* threshold; and a success handled while OPEN with such a view closes it.
C14_ClosesOnlyByExpiryOrSuccess ==
    /\ [][\A r \in Replicas :
             (/\ strategies[r].has
              /\ strategies[r]._state = "OPEN"
              /\ strategies'[r]._state = "CLOSED") =>
                 /\ last'.op \in {"call", "use"} /\ last'.r = r
                 /\ \/ last'.expired
                    \/ /\ last'.f = "ok" /\ last'.ran
                       /\ CloseCondition(last'.postview, r)]_vars
    /\ [](\A r \in Replicas :
             (/\ flag /\ last.op = "use" /\ last.r = r /\ last.f = "ok"
              /\ last.arrived = "OPEN"
              /\ CloseCondition(last.postview, r)) =>
                 strategies[r]._state = "CLOSED")

\* A success reported by the scoped guard closed a breaker whose recovery
\* timer was still running.
C14_Witness ==
    /\ last.op = "use" /\ last.f = "ok" /\ last.arrived = "OPEN" /\ ~last.expired
    /\ CloseCondition(last.postview, last.r)
    /\ strategies[last.r]._state = "CLOSED"

\* C15 as stated, for range reads of one instant: a call range-reads the
\* shared store at most once, and of two calls made on one replica with no
\* time passing between them at most one range-reads it.
C15_RefreshAtMostOncePerReadDelay ==
    /\ [](last.reads <= 1)
    /\ [][(/\ last.op \in {"call", "use"} /\ last'.op \in {"call", "use"}
           /\ last'.r = last.r /\ DEFAULT_WINDOW_READ_DELAY > 0) =>
              last.reads + last'.reads <= 1]_vars

\* C16 as stated: every bucket of a replica's cached snapshot is at most
\* window + read_delay seconds older than the snapshot's end, also after a
\* refresh that follows an idle period longer than the window.
C16_SnapshotWithinWindow ==
    \A r \in Replicas :
        circuits[r].pw.has =>
            \A sec \in DOMAIN circuits[r].pw.window :
                sec >= circuits[r].pw.end - (DEFAULT_WINDOW + DEFAULT_WINDOW_READ_DELAY)

\* C17 as stated: CircuitBreakerError is raised only by a rejection without
\* fallback, and the caller of an admitted wrapped call gets the function's
\* own value or error, classified or not.
C17_AdmittedResultUnchanged ==
    last.op = "call" =>
        /\ last.result = CircuitBreakerError =>
              /\ ~last.ran /\ ~site.fallback_function
              /\ strategies[last.r]._state = "OPEN"
        /\ last.ran => last.result = FunctionResult(last.f)

\* The outcomes of one kind in a history of recorded outcomes.
Total(buckets, field) == SumWindow(buckets, Secs, field)

\* C18 as stated: entering the scoped guard on a breaker that is OPEN with
\* its recovery timer running keeps the body from running, and leaving a
\* guard whose body ran records exactly one outcome: a success if the body
\* returned, a failure if it raised a classified error.
C18_ScopedGuardAdmits ==
    /\ []((flag /\ last.op = "use" /\ last.arrived = "OPEN" /\ ~last.expired) => ~last.ran)
    /\ [][(flag /\ last'.op = "use" /\ last'.ran /\ last'.result = FunctionResult(last'.f)) =>
             /\ Total(recorded'[last'.r], "success") =
                    Total(recorded[last'.r], "success") + (IF last'.f = "ok" THEN 1 ELSE 0)
             /\ Total(recorded'[last'.r], "failed") =
                    Total(recorded[last'.r], "failed") + (IF last'.f = "raise" THEN 1 ELSE 0)]_vars

\* C19: a wrapped generator function is admitted or rejected once, when the
\* wrapper is called; while its generator is being consumed nothing is
\* recorded and a next() that gives an element changes no breaker state;
\* when the body ends the generator has recorded exactly one outcome: a
\* failure if it raised a classified error, else a success.
C19_GeneratorOneAdmissionOneOutcome ==
    /\ [](flag =>
            /\ (/\ last.op = "call" /\ last.f = GeneratorFunction
                /\ last.arrived = "OPEN" /\ ~last.expired) =>
                   last.result \in Rejections
            /\ (last.op = "call" /\ last.result = Generator) =>
                   (gen.pc = "created" /\ strategies[last.r]._state = "CLOSED")
            /\ gen.pc \in {"created", "suspended"} => gen.recorded = Zero
            /\ last.op = "end" =>
                   /\ gen.pc = "finished"
                   /\ gen.recorded = [success |-> IF last.f = "raise" THEN 0 ELSE 1,
                                      failed |-> IF last.f = "raise" THEN 1 ELSE 0])
    /\ [][last'.op = "next" =>
             UNCHANGED <<strategies, circuits, redis, recorded, flushed>>]_vars

\* A generator gave MaxYield elements and then raised a classified error,
\* which was recorded as its one failure.
C19_Witness ==
    /\ flag /\ last.op = "end" /\ last.f = "raise"
    /\ gen.yielded = MaxYield
    /\ gen.recorded = [success |-> 0, failed |-> 1]

\* C20 as stated: a generator that its consumer closes or abandons before it
\* ended has recorded no outcome, and closing it leaves the replica's local
\* buffer, failure count and state as they were.
C20_CancelledRecordsNothing ==
    /\ [](gen.pc = "closed" => gen.recorded = Zero)
    /\ [][last'.op = "close" =>
             /\ circuits'[gen.r].buf = circuits[gen.r].buf
             /\ recorded'[gen.r] = recorded[gen.r]
             /\ strategies'[gen.r]._state = strategies[gen.r]._state
             /\ strategies'[gen.r]._failure_count = strategies[gen.r]._failure_count]_vars

\* C21 as stated: a strategy created while the per-breaker configuration
\* supplies min_requests and window has exactly those values in its config.
C21_SuppliedConfigIsEffective ==
    \A r \in Replicas :
        strategies[r].has =>
            /\ strategies[r].config.min_requests = distributed_config.breaker_name.min_requests
            /\ strategies[r].config.window = distributed_config.breaker_name.window

\* C22 as stated: no installed breaker, and no strategy built from one, has a
\* close threshold above its open threshold.
C22_CloseThresholdAtMostOpen ==
    \A r \in Replicas :
        /\ breakers[r].has =>
              breakers[r]._failure_threshold_close <= breakers[r]._failure_threshold_open
        /\ strategies[r].has =>
              strategies[r].config.error_threshold_close
                  <= strategies[r].config.error_threshold_open

\* C23 as stated: when a replica that has a snapshot stores a newer one, every
\* bucket of the previous snapshot that holds outcomes and is not older than
\* now - window is still in the snapshot.
C23_RefreshMergesSnapshot ==
    [][\A r \in Replicas :
          (/\ circuits[r].pw.has /\ circuits'[r].pw.has
           /\ circuits'[r].pw.end > circuits[r].pw.end
           /\ ~last'.expired) =>
              \A sec \in DOMAIN circuits[r].pw.window :
                  (/\ circuits[r].pw.window[sec] # Zero
                   /\ sec >= strftime(now) - DEFAULT_WINDOW) =>
                      sec \in DOMAIN circuits'[r].pw.window]_vars


\* C24: under any interleaving of the threads' outcome calls, each outcome
\* recorded in the local buffer is added to the shared store at most once:
\* the replica never flushed more outcomes than it recorded.
C24_NoDoubleFlush ==
    Total(flushed[Proc], "success") + Total(flushed[Proc], "failed")
        <= Total(recorded[Proc], "success") + Total(recorded[Proc], "failed")


\* C25: under any interleaving of the threads' refreshes, a snapshot stored
\* over a cached one never carries an earlier "end" than the cached one.
C25_SnapshotEndMonotone ==
    [][(circuits[Proc].pw.has /\ circuits'[Proc].pw.has) =>
          circuits'[Proc].pw.end >= circuits[Proc].pw.end]_vars


\* C29: under concurrent record_success / record_failure / reset_breaker
\* calls no increment is lost: once no increment is under way, the buffer's
\* success + failed is the number of record calls issued on the entry since
\* its last reset.
C29_NoLostIncrement ==
    (\A th \in Threads : threads[th].pc # "rec") =>
        circuits[Proc].buf.success + circuits[Proc].buf.failed = circuits[Proc].issued


\* C26: every outcome of a guarded call that ran, a success included, is
\* recorded and then evaluated on the aggregator's view: the handler asked
\* for the view, and a breaker that was CLOSED is OPEN afterwards when that
\* view meets the open condition.
C26_EveryOutcomeEvaluated ==
    (/\ last.op = "call" /\ last.ran /\ flag
     /\ last.result \in {Value, OriginalError}) =>
        /\ last.postview.valid
        /\ (last.arrived = "CLOSED" /\ OpenCondition(last.postview, last.r)) =>
               strategies[last.r]._state = "OPEN"


\* C27: every step that takes a replica's breaker from CLOSED to OPEN, on
\* the outcome path or in the pre-call check, records the opening time as
\* now and leaves the replica's local buffer at (0, 0).
C27_OpeningResetsBuffer ==
    [][\A r \in Replicas :
          (/\ strategies'[r].has
           /\ strategies'[r]._state = "OPEN"
           /\ (~strategies[r].has \/ strategies[r]._state = "CLOSED")) =>
              /\ strategies'[r]._opened = now
              /\ circuits'[r].buf = Zero]_vars


\* C28: the pre-call check, _should_open with sync=False on a CLOSED
\* breaker, leaves the local buffer, the stored snapshot and the shared
\* store as they are, whatever it answers; a call that the check turned
\* away changed nothing but the breaker's state.
C28_PreCheckFrame ==
    /\ [](\A r \in Replicas :
            (strategies[r].has /\ strategies[r]._state = "CLOSED") =>
                LET same(w, w2) ==
                        /\ w2.buf = w.buf /\ w2.pw = w.pw
                        /\ w2.redis = w.redis /\ w2.fl = w.fl /\ w2.rec = w.rec
                    checked(w) ==
                        same(w, _should_open(w, w.buf.success, w.buf.failed, FALSE, now))
                IN checked(World(strategies[r], circuits[r], redis, TRUE,
                                 recorded[r], flushed[r])))
    /\ [][(last'.op = "call" /\ last'.pretrip /\ ~last'.expired) =>
             /\ circuits'[last'.r] = circuits[last'.r]
             /\ redis' = redis
             /\ flushed' = flushed
             /\ recorded' = recorded
             /\ strategies'[last'.r]._state = "OPEN"]_vars

\* A pre-call check that read the shared store with a non-empty local
\* buffer and opened the breaker.
C28_Witness ==
    /\ last.op = "call" /\ last.pretrip /\ ~last.expired /\ last.refreshed
    /\ circuits[last.r].buf # Zero
    /\ strategies[last.r]._state = "OPEN"


\* C30: no wrapped call on one breaker name, the first one that builds its
\* strategy included, changes the local buffer, the cached snapshot or the
\* state of a breaker of another name.
C30_OtherBreakersUntouched ==
    [][\A name \in Names :
          (last'.op = "call" /\ last'.r # name /\ ncalls'.calls # ncalls.calls) =>
              /\ circuits'[name] = circuits[name]
              /\ strategies'[name] = strategies[name]]_vars


\* C31: a refresh keeps what the other replicas wrote to the shared store:
\* the snapshot a replica stores at second t holds, in its bucket for t, at
\* least the counts the other replicas had flushed for t before the step.
C31_RefreshKeepsPeerCounts ==
    [][\A r \in Replicas :
          (circuits'[r].pw.has /\ circuits'[r].pw # circuits[r].pw) =>
              LET sec == circuits'[r].pw.end
              IN \A o \in Replicas \ {r} :
                    /\ circuits'[r].pw.window[sec].success >= flushed[o][sec].success
                    /\ circuits'[r].pw.window[sec].failed >= flushed[o][sec].failed]_vars


\* C32: an outcome recorded between a flush's read of the counters and its
\* reset of the buffer is not lost: when the flushing thread resets, the
\* buffer keeps whatever it held beyond the counts that thread flushed.
C32_RecordedDuringFlushKept ==
    [][\A th \in Threads :
          (threads[th].pc = "save" /\ threads'[th].pc = "idle") =>
              LET sent == threads[th].win.window[strftime(threads[th].dt_now)]
              IN /\ circuits'[Proc].buf.success >= circuits[Proc].buf.success - sent.success
                 /\ circuits'[Proc].buf.failed >= circuits[Proc].buf.failed - sent.failed]_vars


\* C33: while a breaker is OPEN with its recovery timer running, no step
\* moves the opening time; the opening time changes only in a step that
\* takes the breaker from CLOSED to OPEN or that finds the timer run out;
\* and a wrapped call that finds the timer run out leaves the breaker
\* CLOSED, or OPEN again with the opening time of that call.
C33_DeadlineFixedWhileOpen ==
    [][\A r \in Replicas :
          (strategies[r].has /\ strategies'[r].has) =>
              /\ (/\ strategies[r]._state = "OPEN"
                  /\ seconds_remaining_until_circuit_is_open(strategies[r], now) > 0) =>
                     strategies'[r]._opened = strategies[r]._opened
              /\ strategies'[r]._opened # strategies[r]._opened =>
                     \/ strategies[r]._state = "CLOSED" /\ strategies'[r]._state = "OPEN"
                     \/ /\ strategies[r]._state = "OPEN"
                        /\ seconds_remaining_until_circuit_is_open(strategies[r], now) <= 0
              /\ (/\ strategies[r]._state = "OPEN"
                  /\ seconds_remaining_until_circuit_is_open(strategies[r], now) <= 0
                  /\ flag /\ last'.op = "call" /\ last'.r = r
                  /\ ncalls'.calls # ncalls.calls) =>
                     \/ strategies'[r]._state = "CLOSED"
                     \/ strategies'[r]._opened = now]_vars

\* A failure handled on a breaker that had been OPEN for a while with its
\* timer running, its view meeting the open condition.
C33_Witness ==
    /\ last.op = "use" /\ last.f = "raise" /\ last.ran
    /\ last.arrived = "OPEN" /\ ~last.expired
    /\ OpenCondition(last.postview, last.r)
    /\ strategies[last.r]._state = "OPEN"
    /\ strategies[last.r]._opened < now

====
